---- MODULE Spec2Model ----
(***************************************************************************)
(* A model of svd2utra/src/generate.rs: the numeric literal parser         *)
(* (get_base, parse_usize), the recursive-descent SVD parser (parse_svd    *)
(* and the generate_* / parse_* routines below it) and the code emitter    *)
(* (print_header, print_memory_regions, print_peripherals, print_tests),   *)
(* driven by generate.                                                     *)
(*                                                                         *)
(* Strings are sequences of one-character strings, so that prefix tests,   *)
(* trimming, case conversion and digit parsing are computed character by   *)
(* character, as the standard library does.  The XML tokenizer (quick_xml) *)
(* is the environment: each read_event delivers one event chosen from      *)
(* Events; once it has delivered Eof it delivers Eof for ever.             *)
(***************************************************************************)
EXTENDS Integers, Sequences, FiniteSets, TLC

VARIABLES
    stack,        \* call stack of generate: a sequence of frames, top last
    description,  \* the Description built by parse_svd, read by the emitter
    out,          \* the output sink: the sequence of lines written so far
    result,       \* what generate delivered: "running", "Ok", a ParseError, "panic"
    pending,      \* the Err(..) a callee has just returned, or "none"
    eof,          \* TRUE once the tokenizer has delivered Eof
    token,        \* the literal handed to parse_usize (literal-parser runs)
    parsed        \* the Result parse_usize returned for token, or NotRun

vars == <<stack, description, out, result, pending, eof, token, parsed>>

---------------------------------------------------------------------------
(* Bounds of the model.                                                    *)

\* width in bits of the model's usize (the platform's pointer width, scaled)
UsizeBits == 8
\* longest run of characters after the prefix of a literal
MaxDigits == 3

---------------------------------------------------------------------------
(* Characters and strings.                                                 *)

\* the letters of the model; the first six are the hexadecimal digits
LowerLetters == <<"a", "b", "c", "d", "e", "f", "m", "n", "r", "x">>
UpperLetters == <<"A", "B", "C", "D", "E", "F", "M", "N", "R", "X">>

IndexOf(c, s) == CHOOSE i \in 1..Len(s) : s[i] = c

InSeq(c, s) == \E i \in 1..Len(s) : s[i] = c

\* char::to_uppercase / to_lowercase on the characters of the model
UpperChar(c) == IF InSeq(c, LowerLetters) THEN UpperLetters[IndexOf(c, LowerLetters)] ELSE c

LowerChar(c) == IF InSeq(c, UpperLetters) THEN LowerLetters[IndexOf(c, UpperLetters)] ELSE c

to_uppercase(s) == [i \in 1..Len(s) |-> UpperChar(s[i])]

to_lowercase(s) == [i \in 1..Len(s) |-> LowerChar(s[i])]

\* str::starts_with
starts_with(s, p) == Len(s) >= Len(p) /\ SubSeq(s, 1, Len(p)) = p

RECURSIVE trim_start_matches(_, _)
\* str::trim_start_matches: removes the pattern as long as it is a prefix
trim_start_matches(s, p) ==
    IF Len(p) > 0 /\ starts_with(s, p)
    THEN trim_start_matches(SubSeq(s, Len(p) + 1, Len(s)), p)
    ELSE s

---------------------------------------------------------------------------
(* NumericLiteralParser.                                                   *)

UsizeMax == 2 ^ UsizeBits - 1

Ok(v) == [ok |-> TRUE, val |-> v, err |-> "none"]

Err(e) == [ok |-> FALSE, val |-> 0, err |-> e]

NotRun == [ok |-> FALSE, val |-> 0, err |-> "not run"]

DecDigits == <<"0", "1", "2", "3", "4", "5", "6", "7", "8", "9">>

\* char::to_digit(radix): <<d>> for a digit of the radix, <<>> otherwise
to_digit(c, radix) ==
    LET v == IF InSeq(c, DecDigits) THEN IndexOf(c, DecDigits) - 1
             ELSE IF InSeq(c, SubSeq(LowerLetters, 1, 6)) THEN 9 + IndexOf(c, LowerLetters)
             ELSE IF InSeq(c, SubSeq(UpperLetters, 1, 6)) THEN 9 + IndexOf(c, UpperLetters)
             ELSE 36
    IN  IF v < radix THEN <<v>> ELSE <<>>

RECURSIVE accumulate(_, _, _)
\* the digit loop of from_str_radix: checked_mul, to_digit, checked_add
accumulate(acc, digits, radix) ==
    IF digits = <<>> THEN Ok(acc)
    ELSE LET d == to_digit(Head(digits), radix)
         IN  IF d = <<>> THEN Err("ParseIntError")
             ELSE IF acc * radix > UsizeMax THEN Err("ParseIntError")
             ELSE IF acc * radix + d[1] > UsizeMax THEN Err("ParseIntError")
             ELSE accumulate(acc * radix + d[1], Tail(digits), radix)

\* usize::from_str_radix(..).or(Err(ParseIntError)): an optional '+', then digits
from_str_radix(src, radix) ==
    IF src = <<>> THEN Err("ParseIntError")
    ELSE LET digits == IF Head(src) = "+" THEN Tail(src) ELSE src
         IN  IF digits = <<>> THEN Err("ParseIntError")
             ELSE accumulate(0, digits, radix)

\* get_base: <<digits, base>>
get_base(value) ==
    IF starts_with(value, <<"0", "x">>)
    THEN <<trim_start_matches(value, <<"0", "x">>), 16>>
    ELSE IF starts_with(value, <<"0", "X">>)
    THEN <<trim_start_matches(value, <<"0", "X">>), 16>>
    ELSE IF starts_with(value, <<"0", "b">>)
    THEN <<trim_start_matches(value, <<"0", "b">>), 2>>
    ELSE IF starts_with(value, <<"0", "B">>)
    THEN <<trim_start_matches(value, <<"0", "B">>), 2>>
    ELSE IF starts_with(value, <<"0">>) /\ value # <<"0">>
    THEN <<trim_start_matches(value, <<"0">>), 8>>
    ELSE <<value, 10>>

\* parse_usize on a token that is valid UTF-8
parse_usize(value) ==
    LET gb == get_base(value)
    IN  from_str_radix(gb[1], gb[2])

---------------------------------------------------------------------------
(* The event stream of the tokenizer.                                      *)

\* a document opens a record (field, register, interrupt, peripheral,
\* memoryRegion) only while fewer than MaxRecords records have been closed
MaxRecords == 2
\* the sink refuses a line among the first MaxRefused of a section, or none
MaxRefused == 2
\* most records in a Description handed to the emitter on its own
MaxEmitRecords == 3

ScalarTags == {"name", "lsb", "msb", "addressOffset", "baseAddress", "size", "value"}

NodeTags == {"field", "register", "interrupt", "peripheral", "memoryRegion"}

ContainerTags == {"fields", "registers", "peripherals", "memoryRegions", "vendorExtensions"}

\* "description" is an element of SVD no routine recognises
Tags == ScalarTags \cup NodeTags \cup ContainerTags \cup {"description"}

\* text contents of the documents of the model
Texts == {<<"a">>, <<"2">>}

Event(kind, tag, text, utf8) == [kind |-> kind, tag |-> tag, text |-> text, utf8 |-> utf8]

\* Start and End carry the element name, Text its contents; utf8 is FALSE for
\* bytes that do not decode.  "Other" is any of Comment, CData, Decl, PI,
\* DocType, Empty; "Err" is an Err(..) returned by read_event.
EventsOf(tags) ==
    {Event("Start", t, <<>>, TRUE) : t \in tags}
    \cup {Event("Start", "description", <<>>, FALSE)}
    \cup {Event("End", t, <<>>, TRUE) : t \in tags}
    \cup {Event("Text", "", x, TRUE) : x \in Texts}
    \cup {Event("Text", "", <<>>, FALSE)}
    \cup {Event("Other", "", <<>>, TRUE), Event("Eof", "", <<>>, TRUE),
          Event("Err", "", <<>>, TRUE)}

Events == EventsOf(Tags)

\* The events a routine that matches the element names `tags` tells apart:
\* every other name takes the same arm of its match, so one name outside
\* `tags` stands for all of them.
Unmatched(tags) == CHOOSE t \in Tags : t \notin tags

EventsFor(tags) == EventsOf(tags \cup {Unmatched(tags)})

---------------------------------------------------------------------------
(* The data model: Option values are <<>> (None) or <<v>> (Some(v)).       *)

None == <<>>

Some(v) == <<v>>

Field(name, lsb, msb) == [name |-> name, lsb |-> lsb, msb |-> msb]

Register(name, offset, descr, fields) ==
    [name |-> name, offset |-> offset, description |-> descr, fields |-> fields]

Interrupt(name, value) == [name |-> name, value |-> value]

Peripheral(name, base, size, interrupt, registers) ==
    [name |-> name, base |-> base, size |-> size, interrupt |-> interrupt,
     registers |-> registers]

MemoryRegion(name, base, size) == [name |-> name, base |-> base, size |-> size]

\* Description::default()
DescriptionDefault == [peripherals |-> <<>>, memory_regions |-> <<>>]

---------------------------------------------------------------------------
(* The call stack.                                                         *)

Top == stack[Len(stack)]

Pop(s) == SubSeq(s, 1, Len(s) - 1)

Running(fn) ==
    /\ result = "running"
    /\ pending = "none"
    /\ stack # <<>>
    /\ Top.fn = fn

RECURSIVE Sum(_)
Sum(s) == IF s = <<>> THEN 0 ELSE Head(s) + Sum(Tail(s))

SumLen(s, Count(_)) == Sum([i \in 1..Len(s) |-> Count(s[i])])

RegisterRecords(r) == 1 + Len(r.fields)

PeripheralRecords(p) == 1 + Len(p.interrupt) + SumLen(p.registers, RegisterRecords)

FrameRecords(f) ==
    CASE f.fn = "generate_peripherals" -> SumLen(f.peripherals, PeripheralRecords)
      [] f.fn = "generate_peripheral" ->
            Len(f.interrupts) + SumLen(f.registers, RegisterRecords)
      [] f.fn = "generate_register" -> Len(f.fields)
      [] OTHER -> 0

\* the records closed so far: those of the Description and of the vectors of
\* the routines under way
RecordsRead ==
    SumLen(description.peripherals, PeripheralRecords)
    + Len(description.memory_regions)
    + SumLen(stack, FrameRecords)

\* read_event: the tokenizer delivers ev; after Eof it delivers Eof again
ReadEvent(ev) ==
    /\ ev \in Events
    /\ eof => ev.kind = "Eof"
    /\ eof' = (eof \/ ev.kind = "Eof")

RoomForRecord == RecordsRead < MaxRecords

\* the Option locals of a node routine that are still None
Missing(f) ==
    {l \in DOMAIN f \cap {"name", "lsb", "msb", "offset", "base", "size", "value"} :
        f[l] = None}

\* a document opens a child element of a node (fields, registers, interrupt)
\* once the node's scalars are read, or earlier while the records closed and
\* the scalars still unread together stay under MaxRecords
RoomForChild ==
    \/ Missing(Top) = {}
    \/ RecordsRead + Cardinality(Missing(Top)) < MaxRecords

\* the routine on top of the stack goes round its loop again
Continue == UNCHANGED <<stack, pending, result, description>>

\* the routine on top of the stack calls f
Call(f) ==
    /\ stack' = Append(stack, f)
    /\ UNCHANGED <<pending, result, description>>

\* the routine on top of the stack returns Err(e)
Raise(e) ==
    /\ stack' = Pop(stack)
    /\ pending' = e
    /\ UNCHANGED <<result, description>>

\* panic!: the process is torn down, generate never returns
Panic ==
    /\ stack' = <<>>
    /\ result' = "panic"
    /\ UNCHANGED <<pending, description>>

ExtractFrame(dest) == [fn |-> "extract_contents", dest |-> dest]

---------------------------------------------------------------------------
(* HardwareModelBuilder: one action per parsing routine.  An action is one *)
(* turn of the routine's loop: a read_event and the arm it selects.        *)

\* the locals of a node routine on entry; pc is "loop" inside the loop and
\* "construct" once the routine's own end tag has broken out of it
NodeFrame(fn) ==
    CASE fn = "generate_field" ->
            [fn |-> fn, pc |-> "loop", name |-> None, lsb |-> None, msb |-> None]
      [] fn = "generate_register" ->
            [fn |-> fn, pc |-> "loop", name |-> None, offset |-> None,
             description |-> None, fields |-> <<>>]
      [] fn = "generate_interrupts" ->
            [fn |-> fn, pc |-> "loop", name |-> None, value |-> None]
      [] fn = "generate_peripheral" ->
            [fn |-> fn, pc |-> "loop", name |-> None, base |-> None, size |-> None,
             registers |-> <<>>, interrupts |-> <<>>]
      [] fn = "generate_memory_region" ->
            [fn |-> fn, pc |-> "loop", name |-> None, base |-> None, size |-> None]

\* the `?` operator: the error of the callee is the error the caller returns
Question(e) == e

\* `name = Some(extract_contents(reader)?)` and
\* `x = Some(parse_usize(extract_contents(reader)?.as_bytes())?)` in the caller
\* frame f, once extract_contents has returned Ok(text) for the tag dest
Assign(f, dest, text) ==
    LET local == CASE dest = "addressOffset" -> "offset"
                   [] dest = "baseAddress" -> "base"
                   [] OTHER -> dest
        n == parse_usize(text)
    IN  IF dest = "name" THEN Ok([f EXCEPT !.name = Some(text)])
        ELSE IF n.ok THEN Ok([f EXCEPT ![local] = Some(n.val)])
        ELSE Err(n.err)

\* Ok("") for the end tag of an empty element, in place of Err(UnexpectedTag)
extract_contents_empty(ev) ==
    IF ev.kind = "Err" THEN Raise("UnexpectedTag")
    ELSE IF ev.kind = "Text" /\ ~ev.utf8 THEN Raise("NonUTF8")
    ELSE IF ev.kind \in {"Text", "End"}
    THEN LET caller == stack[Len(stack) - 1]
             r == Assign(caller, Top.dest, ev.text)
         IN  IF r.ok
             THEN /\ stack' = [Pop(stack) EXCEPT ![Len(stack) - 1] = r.val]
                  /\ UNCHANGED <<pending, result, description>>
             ELSE /\ stack' = Pop(stack)
                  /\ pending' = r.err
                  /\ UNCHANGED <<result, description>>
    ELSE Raise("UnexpectedTag")

\* extract_contents once read_event has delivered ev: the event must be a text
extract_contents(ev) ==
    IF ev.kind = "Err" THEN Raise("UnexpectedTag")
    ELSE IF ev.kind = "Text" /\ ~ev.utf8 THEN Raise("NonUTF8")
    ELSE IF ev.kind = "Text"
    THEN LET caller == stack[Len(stack) - 1]
             r == Assign(caller, Top.dest, ev.text)
         IN  IF r.ok
             THEN /\ stack' = [Pop(stack) EXCEPT ![Len(stack) - 1] = r.val]
                  /\ UNCHANGED <<pending, result, description>>
             ELSE /\ stack' = Pop(stack)
                  /\ pending' = r.err
                  /\ UNCHANGED <<result, description>>
    ELSE Raise("UnexpectedTag")

ExtractContents ==
    /\ Running("extract_contents")
    /\ \E ev \in EventsFor({}) :
        /\ ReadEvent(ev)
        /\ extract_contents(ev)
    /\ UNCHANGED <<out, token, parsed>>

\* a node routine that skips the element of a start tag it does not know:
\* the events up to the end tag of that element never reach its match
NodeArmSkipping(ev, scalars, calls, own) ==
    IF ev.kind = "Start" /\ ~ev.utf8 THEN Raise("NonUTF8")
    ELSE IF ev.kind = "Start" /\ ev.tag \in scalars THEN Call(ExtractFrame(ev.tag))
    ELSE IF ev.kind = "Start" /\ ev.tag \in DOMAIN calls THEN Call(calls[ev.tag])
    ELSE IF ev.kind = "Start" THEN Call([fn |-> "read_to_end", tag |-> ev.tag])
    ELSE IF ev.kind = "End" /\ ev.tag = own
    THEN /\ stack' = [stack EXCEPT ![Len(stack)].pc = "construct"]
         /\ UNCHANGED <<pending, result, description>>
    ELSE IF ev.kind = "Err" THEN Panic
    ELSE Continue

\* the match of a node routine on the event ev: scalars are the start tags the
\* routine reads a value for, calls maps the start tags it descends into to
\* the frame of the callee, own is the routine's own element, whose end tag
\* breaks
NodeArm(ev, scalars, calls, own) ==
    IF ev.kind = "Start" /\ ~ev.utf8 THEN Raise("NonUTF8")
    ELSE IF ev.kind = "Start" /\ ev.tag \in scalars THEN Call(ExtractFrame(ev.tag))
    ELSE IF ev.kind = "Start" /\ ev.tag \in DOMAIN calls THEN Call(calls[ev.tag])
    ELSE IF ev.kind = "End" /\ ev.tag = own
    THEN /\ stack' = [stack EXCEPT ![Len(stack)].pc = "construct"]
         /\ UNCHANGED <<pending, result, description>>
    ELSE IF ev.kind = "Err" THEN Panic
    ELSE Continue

\* the loop shared by the node routines
NodeLoop(scalars, calls, own) ==
    \E ev \in EventsFor(scalars \cup DOMAIN calls \cup {own}) :
        /\ ReadEvent(ev)
        /\ (ev.kind = "Start" /\ ev.tag \in DOMAIN calls) => RoomForChild
        /\ (ev.kind = "Start" /\ ev.tag = "interrupt" /\ ev.tag \in DOMAIN calls)
              => RoomForRecord
        /\ NodeArm(ev, scalars, calls, own)

\* a text in a container is a schema violation like any other event
ContainerArmStrict(ev, child, callee, own, Finish) ==
    IF ev.kind = "Start" /\ ev.utf8 /\ ev.tag = child THEN Call(callee)
    ELSE IF ev.kind = "Start" THEN Panic
    ELSE IF ev.kind = "End" /\ ev.tag = own THEN Finish
    ELSE Panic

\* the match of a container routine on the event ev: child is the only start
\* tag accepted, own the only end tag; Finish is what follows the break
ContainerArm(ev, child, callee, own, Finish) ==
    IF ev.kind = "Start" /\ ev.utf8 /\ ev.tag = child THEN Call(callee)
    ELSE IF ev.kind = "Start" THEN Panic
    ELSE IF ev.kind = "End" /\ ev.tag = own THEN Finish
    ELSE IF ev.kind = "End" THEN Panic
    ELSE IF ev.kind = "Text" THEN Continue
    ELSE Panic

\* the loop shared by the container routines
ContainerLoop(child, callee, own, Finish) ==
    \E ev \in EventsFor({child, own}) :
        /\ ReadEvent(ev)
        /\ (ev.kind = "Start" /\ ev.tag = child /\ child \in NodeTags) => RoomForRecord
        /\ ContainerArm(ev, child, callee, own, Finish)

\* return Ok(()) to the caller
ReturnUnit ==
    /\ stack' = Pop(stack)
    /\ UNCHANGED <<pending, result, description>>

\* Vec::insert(0, record) in place of Vec::push(record)
ReturnInsertFirst(depth, vec, record) ==
    /\ stack' = [Pop(stack) EXCEPT ![Len(stack) - depth][vec] = <<record>> \o @]
    /\ UNCHANGED <<pending, result, description>>

\* return Ok(record) to a caller that pushes it onto the vector `vec` of the
\* frame `depth` frames below the top
ReturnPush(depth, vec, record) ==
    /\ stack' = [Pop(stack) EXCEPT ![Len(stack) - depth][vec] = Append(@, record)]
    /\ UNCHANGED <<pending, result, description>>

\* Option::unwrap_or_default in place of ok_or: an unread scalar becomes "" or 0
unwrap_or_default(f, record) ==
    Ok([l \in DOMAIN record |->
            IF record[l] # None THEN record[l]
            ELSE IF l = "name" THEN Some(<<>>) ELSE Some(0)])

\* Option::ok_or(ParseError::MissingValue) on the locals the record needs
ok_or_MissingValue(f, record) == IF Missing(f) # {} THEN Err("MissingValue") ELSE Ok(record)

\* a generate_field that checks the bit range and refuses msb < lsb
field_result_ordered(f) ==
    IF Missing(f) = {} /\ f.msb[1] < f.lsb[1] THEN Err("UnexpectedTag")
    ELSE ok_or_MissingValue(f, [name |-> f.name, lsb |-> f.lsb, msb |-> f.msb])

\* Ok(Field { name: name.ok_or(..)?, lsb: lsb.ok_or(..)?, msb: msb.ok_or(..)? })
field_result(f) ==
    ok_or_MissingValue(f, [name |-> f.name, lsb |-> f.lsb, msb |-> f.msb])

\* a Register built with a description (that of its name) in place of None
register_result_described(f) ==
    ok_or_MissingValue(f, [name |-> f.name, offset |-> f.offset,
                           description |-> <<f.name>>, fields |-> <<f.fields>>])

\* Ok(Register { name: .., offset: .., description, fields })
register_result(f) ==
    ok_or_MissingValue(f, [name |-> f.name, offset |-> f.offset,
                           description |-> <<f.description>>, fields |-> <<f.fields>>])

\* Interrupt { name: .., value: .. }
interrupt_result(f) == ok_or_MissingValue(f, [name |-> f.name, value |-> f.value])

\* Ok(Peripheral { name: .., base: .., size: .., interrupt: interrupts, registers })
peripheral_result(f) ==
    ok_or_MissingValue(f, [name |-> f.name, base |-> f.base, size |-> f.size,
                           interrupt |-> <<f.interrupts>>, registers |-> <<f.registers>>])

\* Ok(MemoryRegion { name: .., base: .., size: .. })
memory_region_result(f) ==
    ok_or_MissingValue(f, [name |-> f.name, base |-> f.base, size |-> f.size])

\* the record of r.val, each member taken out of its Some(..)
Unwrapped(r) == [l \in DOMAIN r.val |-> r.val[l][1]]

\* what follows the loop of a node routine: the record is built and returned
\* to a caller that pushes it onto the vector `vec` of the frame `depth`
\* frames below the top, or Err(MissingValue) is returned
Construct(r, depth, vec) ==
    IF r.ok THEN ReturnPush(depth, vec, Unwrapped(r)) ELSE Raise(r.err)

\* what the match of each node routine knows: the start tags it reads a value
\* for, the start tags it descends into with the frame of the callee, and its
\* own element
Nodes ==
    [generate_field |->
        [scalars |-> {"name", "lsb", "msb"}, calls |-> <<>>, own |-> "field"],
     generate_register |->
        [scalars |-> {"name", "addressOffset"},
         calls |-> [t \in {"fields"} |-> [fn |-> "generate_fields"]],
         own |-> "register"],
     generate_interrupts |->
        [scalars |-> {"name", "value"}, calls |-> <<>>, own |-> "interrupt"],
     generate_peripheral |->
        [scalars |-> {"name", "baseAddress", "size"},
         calls |-> [t \in {"registers", "interrupt"} |->
                       IF t = "registers" THEN [fn |-> "generate_registers"]
                       ELSE NodeFrame("generate_interrupts")],
         own |-> "peripheral"],
     generate_memory_region |->
        [scalars |-> {"name", "baseAddress", "size"}, calls |-> <<>>,
         own |-> "memoryRegion"]]

\* the loop of the node routine fn
NodeLoopOf(fn) == NodeLoop(Nodes[fn].scalars, Nodes[fn].calls, Nodes[fn].own)

generate_field ==
    /\ Running("generate_field")
    /\ IF Top.pc = "loop"
       THEN NodeLoopOf("generate_field")
       ELSE Construct(field_result(Top), 2, "fields") /\ UNCHANGED eof
    /\ UNCHANGED <<out, token, parsed>>

generate_fields ==
    /\ Running("generate_fields")
    /\ ContainerLoop("field", NodeFrame("generate_field"), "fields", ReturnUnit)
    /\ UNCHANGED <<out, token, parsed>>

generate_register ==
    /\ Running("generate_register")
    /\ IF Top.pc = "loop"
       THEN NodeLoopOf("generate_register")
       ELSE Construct(register_result(Top), 2, "registers") /\ UNCHANGED eof
    /\ UNCHANGED <<out, token, parsed>>

generate_interrupts ==
    /\ Running("generate_interrupts")
    /\ IF Top.pc = "loop"
       THEN NodeLoopOf("generate_interrupts")
       ELSE Construct(interrupt_result(Top), 1, "interrupts") /\ UNCHANGED eof
    /\ UNCHANGED <<out, token, parsed>>

generate_registers ==
    /\ Running("generate_registers")
    /\ ContainerLoop("register", NodeFrame("generate_register"), "registers", ReturnUnit)
    /\ UNCHANGED <<out, token, parsed>>

generate_peripheral ==
    /\ Running("generate_peripheral")
    /\ IF Top.pc = "loop"
       THEN NodeLoopOf("generate_peripheral")
       ELSE Construct(peripheral_result(Top), 1, "peripherals") /\ UNCHANGED eof
    /\ UNCHANGED <<out, token, parsed>>

\* a parse_svd that extends the peripherals of the Description with those of
\* the element in place of assigning them
generate_peripherals_extend ==
    /\ Running("generate_peripherals")
    /\ ContainerLoop("peripheral", NodeFrame("generate_peripheral"), "peripherals",
                     /\ stack' = Pop(stack)
                     /\ description' = [description EXCEPT !.peripherals = @ \o Top.peripherals]
                     /\ UNCHANGED <<pending, result>>)
    /\ UNCHANGED <<out, token, parsed>>

generate_peripherals ==
    /\ Running("generate_peripherals")
    /\ ContainerLoop("peripheral", NodeFrame("generate_peripheral"), "peripherals",
                     /\ stack' = Pop(stack)
                     /\ description' = [description EXCEPT !.peripherals = Top.peripherals]
                     /\ UNCHANGED <<pending, result>>)
    /\ UNCHANGED <<out, token, parsed>>

generate_memory_region ==
    /\ Running("generate_memory_region")
    /\ IF Top.pc = "loop"
       THEN NodeLoopOf("generate_memory_region")
       ELSE LET r == memory_region_result(Top)
            IN  /\ IF r.ok
                   THEN /\ stack' = Pop(stack)
                        /\ description' = [description EXCEPT !.memory_regions =
                                               Append(@, Unwrapped(r))]
                        /\ UNCHANGED <<pending, result>>
                   ELSE Raise(r.err)
                /\ UNCHANGED eof
    /\ UNCHANGED <<out, token, parsed>>

parse_memory_regions ==
    /\ Running("parse_memory_regions")
    /\ ContainerLoop("memoryRegion", NodeFrame("generate_memory_region"),
                     "memoryRegions", ReturnUnit)
    /\ UNCHANGED <<out, token, parsed>>

parse_vendor_extensions ==
    /\ Running("parse_vendor_extensions")
    /\ ContainerLoop("memoryRegions", [fn |-> "parse_memory_regions"],
                     "vendorExtensions", ReturnUnit)
    /\ UNCHANGED <<out, token, parsed>>

\* parse_svd: the loop at the root of the document
\* a start tag parse_svd does not know starts the Description afresh
RootArmReset(ev) ==
    IF ev.kind = "Start" /\ ev.utf8 /\ ev.tag = "peripherals"
    THEN Call([fn |-> "generate_peripherals", peripherals |-> <<>>])
    ELSE IF ev.kind = "Start" /\ ev.utf8 /\ ev.tag = "vendorExtensions"
    THEN Call([fn |-> "parse_vendor_extensions"])
    ELSE IF ev.kind = "Start"
    THEN /\ description' = DescriptionDefault
         /\ UNCHANGED <<stack, pending, result>>
    ELSE IF ev.kind = "Eof"
    THEN /\ stack' = <<[fn |-> "generate", pc |-> "print_header"]>>
         /\ UNCHANGED <<pending, result, description>>
    ELSE IF ev.kind = "Err" THEN Panic
    ELSE Continue

\* the match of parse_svd on the event ev
RootArm(ev) ==
    IF ev.kind = "Start" /\ ev.utf8 /\ ev.tag = "peripherals"
    THEN Call([fn |-> "generate_peripherals", peripherals |-> <<>>])
    ELSE IF ev.kind = "Start" /\ ev.utf8 /\ ev.tag = "vendorExtensions"
    THEN Call([fn |-> "parse_vendor_extensions"])
    ELSE IF ev.kind = "Eof"
    THEN /\ stack' = <<[fn |-> "generate", pc |-> "print_header"]>>
         /\ UNCHANGED <<pending, result, description>>
    ELSE IF ev.kind = "Err" THEN Panic
    ELSE Continue

parse_svd ==
    /\ Running("parse_svd")
    /\ \E ev \in EventsFor({"peripherals", "vendorExtensions"}) :
        /\ ReadEvent(ev)
        /\ RootArm(ev)
    /\ UNCHANGED <<out, token, parsed>>

\* a routine whose callee returned Err(e) returns it through `?`; generate
\* delivers it to its caller
Unwind ==
    /\ result = "running"
    /\ pending # "none"
    /\ stack # <<>>
    /\ IF Len(stack) = 1
       THEN /\ result' = Question(pending)
            /\ pending' = "none"
            /\ stack' = <<>>
       ELSE /\ pending' = Question(pending)
            /\ stack' = Pop(stack)
            /\ UNCHANGED result
    /\ UNCHANGED <<description, out, eof, token, parsed>>

\* generate: `let description = parse_svd(src)?`, up to the call
generate ==
    /\ Running("generate")
    /\ Top.pc = "parse_svd"
    /\ stack' = Append(stack, [fn |-> "parse_svd"])
    /\ description' = DescriptionDefault
    /\ UNCHANGED <<out, result, pending, eof, token, parsed>>

---------------------------------------------------------------------------
(* CodeEmitter.  A line of output is a record: kind says which format      *)
(* string wrote it, ident is the identifier it declares or uses, mod the   *)
(* namespace (utra::<mod>) it stands in or names, val the numbers it       *)
(* prints and ref the identifier it passes as an argument.                 *)

Line(kind, mod, ident, val, ref) ==
    [kind |-> kind, mod |-> mod, ident |-> ident, val |-> val, ref |-> ref]

Plain(kind) == Line(kind, <<>>, <<>>, <<>>, <<>>)

RECURSIVE Concat(_)
Concat(ss) == IF ss = <<>> THEN <<>> ELSE Head(ss) \o Concat(Tail(ss))

\* for x in xs { lines(x) }
ForEach(xs, lines(_)) == Concat([i \in 1..Len(xs) |-> lines(xs[i])])

HW_ == <<"H", "W", "_">>
_MEM == <<"_", "M", "E", "M">>
_MEM_LEN == <<"_", "M", "E", "M", "_", "L", "E", "N">>
_BASE == <<"_", "B", "A", "S", "E">>
_IRQ == <<"_", "I", "R", "Q">>
_csr == <<"_", "c", "s", "r">>

\* usize arithmetic of the emitter: a build with overflow checks panics, shown
\* here as Overflow; a build without them wraps modulo 2^UsizeBits
Overflow == 0 - 1

usize_add(a, b, checked) ==
    IF a = Overflow THEN Overflow
    ELSE IF a + b <= UsizeMax THEN a + b
    ELSE IF checked THEN Overflow
    ELSE (a + b) % (UsizeMax + 1)

usize_sub(a, b, checked) ==
    IF a = Overflow THEN Overflow
    ELSE IF a - b >= 0 THEN a - b
    ELSE IF checked THEN Overflow
    ELSE (a - b) % (UsizeMax + 1)

\* field.msb + 1 - field.lsb
field_width(field, checked) == usize_sub(usize_add(field.msb, 1, checked), field.lsb, checked)

\* print_header: one write_all of the fixed preamble
print_header_lines == <<Plain("header")>>

\* print_memory_regions
print_memory_regions_lines(regions) ==
    LET region_lines(region) ==
            <<Line("mem_base", <<>>, HW_ \o region.name \o _MEM, <<region.base>>, <<>>),
              Line("mem_len", <<>>, HW_ \o region.name \o _MEM_LEN, <<region.size>>, <<>>)>>
    IN  <<Plain("comment")>> \o ForEach(regions, region_lines) \o <<Plain("blank")>>

\* print_peripherals with the interrupt constants of all peripherals collected
\* after the modules instead of inside the module of their peripheral
print_peripherals_irqs_last(peripherals, checked) ==
    LET base_line(peripheral) ==
            <<Line("base", <<>>, HW_ \o to_uppercase(peripheral.name) \o _BASE,
                   <<peripheral.base>>, <<>>)>>
        irq_lines(peripheral) ==
            LET irq_line(interrupt) ==
                    <<Line("irq", to_lowercase(peripheral.name),
                           to_uppercase(interrupt.name) \o _IRQ, <<interrupt.value>>, <<>>)>>
            IN  ForEach(peripheral.interrupt, irq_line)
        mod_lines(peripheral) ==
            LET mod == to_lowercase(peripheral.name)
                register_lines(register) ==
                    LET field_line(field) ==
                            <<Line("field", mod,
                                   register.name \o <<"_">> \o to_uppercase(field.name),
                                   <<field_width(field, checked), field.lsb>>,
                                   register.name)>>
                    IN  <<Plain("blank")>>
                        \o <<Line("register", mod, to_uppercase(register.name),
                                  <<register.offset>>, <<>>)>>
                        \o ForEach(register.fields, field_line)
            IN  <<Plain("blank"), Line("mod", mod, mod, <<>>, <<>>)>>
                \o ForEach(peripheral.registers, register_lines)
                \o <<Plain("blank")>>
                \o <<Plain("mod_close")>>
    IN  <<Plain("comment")>> \o ForEach(peripherals, base_line)
        \o <<Plain("blank"), Plain("utra")>>
        \o ForEach(peripherals, mod_lines)
        \o ForEach(peripherals, irq_lines)
        \o <<Plain("utra_close")>>

\* print_peripherals
print_peripherals_lines(peripherals, checked) ==
    LET base_line(peripheral) ==
            <<Line("base", <<>>, HW_ \o to_uppercase(peripheral.name) \o _BASE,
                   <<peripheral.base>>, <<>>)>>
        mod_lines(peripheral) ==
            LET mod == to_lowercase(peripheral.name)
                register_lines(register) ==
                    LET field_line(field) ==
                            <<Line("field", mod,
                                   register.name \o <<"_">> \o to_uppercase(field.name),
                                   <<field_width(field, checked), field.lsb>>,
                                   register.name)>>
                    IN  <<Plain("blank")>>
                        \o (IF register.description # None
                            THEN <<Line("doc", mod, register.description[1], <<>>, <<>>)>>
                            ELSE <<>>)
                        \o <<Line("register", mod, to_uppercase(register.name),
                                  <<register.offset>>, <<>>)>>
                        \o ForEach(register.fields, field_line)
                irq_line(interrupt) ==
                    <<Line("irq", mod, to_uppercase(interrupt.name) \o _IRQ,
                           <<interrupt.value>>, <<>>)>>
            IN  <<Plain("blank"), Line("mod", mod, mod, <<>>, <<>>)>>
                \o ForEach(peripheral.registers, register_lines)
                \o <<Plain("blank")>>
                \o ForEach(peripheral.interrupt, irq_line)
                \o <<Plain("mod_close")>>
    IN  <<Plain("comment")>> \o ForEach(peripherals, base_line)
        \o <<Plain("blank"), Plain("utra")>>
        \o ForEach(peripherals, mod_lines)
        \o <<Plain("utra_close")>>

\* print_tests
print_tests_lines(peripherals) ==
    LET peripheral_lines(peripheral) ==
            LET mod_name == to_lowercase(peripheral.name)
                per_name == to_lowercase(peripheral.name) \o _csr
                register_lines(register) ==
                    LET reg_name == to_uppercase(register.name)
                        field_lines(field) ==
                            LET field_name ==
                                    reg_name \o <<"_">> \o to_uppercase(field.name)
                            IN  <<Line("rf", mod_name, field_name, <<>>, per_name),
                                  Line("rmwf", mod_name, field_name, <<>>, per_name),
                                  Line("zf", mod_name, field_name, <<>>, per_name),
                                  Line("ms", mod_name, field_name, <<>>, per_name),
                                  Line("wfo", mod_name, field_name, <<>>, per_name)>>
                    IN  <<Plain("blank"),
                          Line("r", mod_name, reg_name, <<>>, per_name),
                          Line("wo", mod_name, reg_name, <<>>, per_name)>>
                        \o ForEach(register.fields, field_lines)
            IN  <<Line("csr", <<>>, per_name, <<>>,
                       HW_ \o to_uppercase(peripheral.name) \o _BASE)>>
                \o ForEach(peripheral.registers, register_lines)
    IN  <<Plain("test_header")>> \o ForEach(peripherals, peripheral_lines)
        \o <<Plain("test_close"), Plain("test_close")>>

\* the first line whose arguments cannot be computed (0 if there is none)
FirstOverflow(lines) ==
    LET bad == {i \in 1..Len(lines) : \E j \in 1..Len(lines[i].val) :
                                          lines[i].val[j] = Overflow}
    IN  IF bad = {} THEN 0 ELSE CHOOSE i \in bad : \A j \in bad : i <= j

\* the result of the print function is dropped instead of being turned into
\* WriteError: generate goes on at next after a refused line
EmitUnchecked(lines, next) ==
    LET p == FirstOverflow(lines)
        limit == IF p = 0 THEN Len(lines) ELSE p - 1
    IN  \E k \in {j \in 0..limit : j < MaxRefused \/ j = limit} :
            /\ out' = out \o SubSeq(lines, 1, k)
            /\ IF k = limit /\ p # 0
               THEN /\ result' = "panic"
                    /\ stack' = <<>>
               ELSE IF next = "return"
               THEN /\ result' = "Ok"
                    /\ stack' = <<>>
               ELSE /\ result' = result
                    /\ stack' = <<[Top EXCEPT !.pc = next]>>

\* One section of generate: the print function writes its lines one by one
\* until the sink refuses one, which generate turns into WriteError; on success
\* generate goes on at next.  k is the number of lines the sink accepts.
Emit(lines, next) ==
    LET p == FirstOverflow(lines)
        limit == IF p = 0 THEN Len(lines) ELSE p - 1
    IN  \E k \in {j \in 0..limit : j < MaxRefused \/ j = limit} :
            /\ out' = out \o SubSeq(lines, 1, k)
            /\ IF k < limit
               THEN /\ result' = "WriteError"
                    /\ stack' = <<>>
               ELSE IF p # 0
               THEN /\ result' = "panic"
                    /\ stack' = <<>>
               ELSE IF next = "return"
               THEN /\ result' = "Ok"
                    /\ stack' = <<>>
               ELSE /\ result' = result
                    /\ stack' = <<[Top EXCEPT !.pc = next]>>

AtSection(pc) == Running("generate") /\ Top.pc = pc

print_header ==
    /\ AtSection("print_header")
    /\ Emit(print_header_lines, "print_memory_regions")
    /\ UNCHANGED <<description, pending, eof, token, parsed>>

print_memory_regions ==
    /\ AtSection("print_memory_regions")
    /\ Emit(print_memory_regions_lines(description.memory_regions), "print_peripherals")
    /\ UNCHANGED <<description, pending, eof, token, parsed>>

print_peripherals ==
    /\ AtSection("print_peripherals")
    /\ \E checked \in BOOLEAN :
          Emit(print_peripherals_lines(description.peripherals, checked), "print_tests")
    /\ UNCHANGED <<description, pending, eof, token, parsed>>

print_tests ==
    /\ AtSection("print_tests")
    /\ Emit(print_tests_lines(description.peripherals), "return")
    /\ UNCHANGED <<description, pending, eof, token, parsed>>

---------------------------------------------------------------------------
(* The conversion: generate on one document.                               *)

Init ==
    /\ stack = <<[fn |-> "generate", pc |-> "parse_svd"]>>
    /\ description = DescriptionDefault
    /\ out = <<>>
    /\ result = "running"
    /\ pending = "none"
    /\ eof = FALSE
    /\ token = <<>>
    /\ parsed = NotRun

Next ==
    \/ generate
    \/ parse_svd
    \/ generate_peripherals
    \/ generate_peripheral
    \/ generate_registers
    \/ generate_register
    \/ generate_fields
    \/ generate_field
    \/ generate_interrupts
    \/ parse_vendor_extensions
    \/ parse_memory_regions
    \/ generate_memory_region
    \/ ExtractContents
    \/ Unwind
    \/ print_header
    \/ print_memory_regions
    \/ print_peripherals
    \/ print_tests

Spec == Init /\ [][Next]_vars

---------------------------------------------------------------------------
(* The literal parser on its own: parse_usize applied to one token.        *)

Prefixes == {<<>>, <<"0">>, <<"0", "x">>, <<"0", "X">>, <<"0", "b">>, <<"0", "B">>}

BodyChars == {"0", "1", "7", "8", "A", "b", "x", "+", "-"}

SeqsUpTo(S, n) == UNION {[1..k -> S] : k \in 0..n}

\* the tokens of the model: a prefix, then at most MaxDigits further characters
Tokens == {p \o d : p \in Prefixes, d \in SeqsUpTo(BodyChars, MaxDigits)}

NumInit ==
    /\ token \in Tokens
    /\ parsed = NotRun
    /\ stack = <<>>
    /\ description = DescriptionDefault
    /\ out = <<>>
    /\ result = "running"
    /\ pending = "none"
    /\ eof = FALSE

ParseUsize ==
    /\ parsed = NotRun
    /\ parsed' = parse_usize(token)
    /\ UNCHANGED <<stack, description, out, result, pending, eof, token>>

NumNext == ParseUsize

NumSpec == NumInit /\ [][NumNext]_vars

---------------------------------------------------------------------------
(* The emitter on its own: the four sections of generate on a Description  *)
(* that parse_svd has returned.                                            *)

EmitNames == {<<"r", "a", "m">>, <<"E", "N">>}

\* lsb and msb of the fields
BitNums == {0, 2, UsizeMax}

\* base addresses and offsets; sizes and interrupt numbers
AddrNums == {0, 4}
SizeNums == {2}

EmitFields == {Field(n, l, m) : n \in EmitNames, l \in BitNums, m \in BitNums}

EmitInterrupts == {Interrupt(n, v) : n \in EmitNames, v \in SizeNums}

EmitRegions == {MemoryRegion(n, b, z) : n \in EmitNames, b \in AddrNums, z \in SizeNums}

\* the registers of exactly k records: the register and k - 1 fields
EmitRegisters(k) ==
    {Register(n, o, None, fs) : n \in EmitNames, o \in AddrNums, fs \in [1..(k - 1) -> EmitFields]}

RECURSIVE EmitRegisterLists(_)
\* the sequences of registers of exactly n records in all
EmitRegisterLists(n) ==
    IF n = 0 THEN {<<>>}
    ELSE UNION {{<<r>> \o rest : r \in EmitRegisters(k), rest \in EmitRegisterLists(n - k)} :
                    k \in 1..n}

\* the peripherals of exactly k records
EmitPeripherals(k) ==
    UNION {{Peripheral(n, b, z, is, rs) :
                n \in EmitNames, b \in AddrNums, z \in SizeNums,
                is \in [1..i -> EmitInterrupts], rs \in EmitRegisterLists(k - 1 - i)} :
              i \in 0..(k - 1)}

RECURSIVE EmitPeripheralLists(_)
EmitPeripheralLists(n) ==
    IF n = 0 THEN {<<>>}
    ELSE UNION {{<<p>> \o rest : p \in EmitPeripherals(k), rest \in EmitPeripheralLists(n - k)} :
                    k \in 1..n}

\* the Descriptions of at most n records
EmitDescriptions(n) ==
    UNION {{[peripherals |-> ps, memory_regions |-> ms] :
                ps \in EmitPeripheralLists(pm[1]), ms \in [1..pm[2] -> EmitRegions]} :
              pm \in {x \in (0..n) \X (0..n) : x[1] + x[2] <= n}}

EmitInit ==
    /\ description \in EmitDescriptions(MaxEmitRecords)
    /\ stack = <<[fn |-> "generate", pc |-> "print_header"]>>
    /\ out = <<>>
    /\ result = "running"
    /\ pending = "none"
    /\ eof = TRUE
    /\ token = <<>>
    /\ parsed = NotRun

EmitNext ==
    \/ print_header
    \/ print_memory_regions
    \/ print_peripherals
    \/ print_tests

EmitSpec == EmitInit /\ [][EmitNext]_vars

---------------------------------------------------------------------------
(* The parser from inside a field: the document so far is                  *)
(* <peripherals><peripheral><registers><register><fields><field> followed  *)
(* by some of the scalars of the field, whose values are any of            *)
(* FieldValues; the rest of the document is read as in Spec.               *)

FieldValues == {0, 2}

FieldNames == {<<"a">>}

Optional(S) == {None} \cup {Some(v) : v \in S}

FieldInit ==
    /\ \E name \in Optional(FieldNames), lsb \in Optional(FieldValues),
          msb \in Optional(FieldValues) :
          stack = <<[fn |-> "generate", pc |-> "parse_svd"],
                    [fn |-> "parse_svd"],
                    [fn |-> "generate_peripherals", peripherals |-> <<>>],
                    NodeFrame("generate_peripheral"),
                    [fn |-> "generate_registers"],
                    NodeFrame("generate_register"),
                    [fn |-> "generate_fields"],
                    [NodeFrame("generate_field") EXCEPT
                        !.name = name, !.lsb = lsb, !.msb = msb]>>
    /\ description = DescriptionDefault
    /\ out = <<>>
    /\ result = "running"
    /\ pending = "none"
    /\ eof = FALSE
    /\ token = <<>>
    /\ parsed = NotRun

FieldNext ==
    \/ parse_svd
    \/ generate_peripherals
    \/ generate_peripheral
    \/ generate_registers
    \/ generate_register
    \/ generate_fields
    \/ generate_field
    \/ generate_interrupts
    \/ parse_vendor_extensions
    \/ parse_memory_regions
    \/ generate_memory_region
    \/ ExtractContents
    \/ Unwind

FieldSpec == FieldInit /\ [][FieldNext]_vars

---------------------------------------------------------------------------
(* The parser from the start of a node: the document so far is a           *)
(* vendorExtensions element (or the start of one) with the memory regions  *)
(* EarlierRegions, then the start tags down to a field, a register, an     *)
(* interrupt, a peripheral or a memoryRegion; the rest of the document is  *)
(* read as in Spec.                                                        *)

EarlierRegions == [i \in 1..(MaxRecords - 1) |-> MemoryRegion(<<"a">>, 2, 2)]

NodeStacks ==
    LET root == <<[fn |-> "generate", pc |-> "parse_svd"], [fn |-> "parse_svd"]>>
        peripheral == root \o <<[fn |-> "generate_peripherals", peripherals |-> <<>>],
                                NodeFrame("generate_peripheral")>>
        register == peripheral \o <<[fn |-> "generate_registers"],
                                    NodeFrame("generate_register")>>
    IN  {peripheral,
         register,
         register \o <<[fn |-> "generate_fields"], NodeFrame("generate_field")>>,
         peripheral \o <<NodeFrame("generate_interrupts")>>,
         root \o <<[fn |-> "parse_vendor_extensions"], [fn |-> "parse_memory_regions"],
                   NodeFrame("generate_memory_region")>>}

NodeInit ==
    /\ stack \in NodeStacks
    /\ description = [peripherals |-> <<>>, memory_regions |-> EarlierRegions]
    /\ out = <<>>
    /\ result = "running"
    /\ pending = "none"
    /\ eof = FALSE
    /\ token = <<>>
    /\ parsed = NotRun

NodeNext ==
    \/ parse_svd
    \/ generate_peripherals
    \/ generate_peripheral
    \/ generate_registers
    \/ generate_register
    \/ generate_fields
    \/ generate_field
    \/ generate_interrupts
    \/ parse_vendor_extensions
    \/ parse_memory_regions
    \/ generate_memory_region
    \/ ExtractContents
    \/ Unwind

NodeSpec == NodeInit /\ [][NodeNext]_vars

---------------------------------------------------------------------------
(* What section 4.1 of the specification says of a literal.                *)

\* the base the prefix of the token selects
LiteralBase(t) ==
    IF starts_with(t, <<"0", "x">>) \/ starts_with(t, <<"0", "X">>) THEN 16
    ELSE IF starts_with(t, <<"0", "b">>) \/ starts_with(t, <<"0", "B">>) THEN 2
    ELSE IF starts_with(t, <<"0">>) /\ t # <<"0">> THEN 8
    ELSE 10

\* the token without one occurrence of its prefix
LiteralDigits(t) ==
    IF LiteralBase(t) \in {16, 2} THEN SubSeq(t, 3, Len(t))
    ELSE IF LiteralBase(t) = 8 THEN Tail(t)
    ELSE t

\* a non-empty run of digits of the base
ValidDigits(d, base) == d # <<>> /\ \A i \in 1..Len(d) : to_digit(d[i], base) # <<>>

RECURSIVE DigitsValue(_, _)
\* the integer a run of digits denotes (most significant digit first)
DigitsValue(d, base) ==
    IF d = <<>> THEN 0
    ELSE DigitsValue(SubSeq(d, 1, Len(d) - 1), base) * base + to_digit(d[Len(d)], base)[1]

\* C1: for every token that is a prefix and a non-empty run of digits valid
\* for the base of the prefix (denoting a value a usize holds), parse_usize
\* returns exactly the integer the digits denote in that base.
C1_ExactValue ==
    (/\ parsed # NotRun
     /\ ValidDigits(LiteralDigits(token), LiteralBase(token))
     /\ DigitsValue(LiteralDigits(token), LiteralBase(token)) <= UsizeMax)
    => parsed = Ok(DigitsValue(LiteralDigits(token), LiteralBase(token)))

\* C2: get_base removes exactly one occurrence of the detected prefix and
\* nothing more, so the literal is parsed as the digits left by that single
\* removal: "00" gives 0, and a token that repeats its prefix is rejected.
C2_PrefixRemovedOnce ==
    parsed # NotRun =>
        /\ get_base(token) = <<LiteralDigits(token), LiteralBase(token)>>
        /\ parsed = from_str_radix(LiteralDigits(token), LiteralBase(token))

---------------------------------------------------------------------------
(* Properties of the parser and of generate.                               *)

NodeRoutines ==
    {"generate_field", "generate_register", "generate_interrupts",
     "generate_peripheral", "generate_memory_region"}

ParseFailures == {"UnexpectedTag", "MissingValue", "ParseIntError", "NonUTF8"}

\* a node routine has read its own end tag and is about to build its record
AtConstruct ==
    /\ result = "running"
    /\ pending = "none"
    /\ stack # <<>>
    /\ Top.fn \in NodeRoutines
    /\ Top.pc = "construct"

\* C3: when the end tag of a field, register, interrupt, peripheral or
\* memoryRegion is reached while one of its required scalars was never read,
\* the routine returns MissingValue and appends no record anywhere; the
\* MissingValue is what every caller up to generate then returns.
C3_MissingValue ==
    [][/\ (AtConstruct /\ Missing(Top) # {}) =>
              /\ pending' = "MissingValue"
              /\ stack' = Pop(stack)
              /\ description' = description
       /\ pending = "MissingValue" =>
              \/ pending' = "MissingValue" /\ description' = description
              \/ result' = "MissingValue" /\ description' = description]_vars

\* a register was closed without one of its scalars: generate_register has
\* returned MissingValue to generate_registers
C3_Witness ==
    /\ pending = "MissingValue"
    /\ stack # <<>>
    /\ Top.fn = "generate_registers"

\* new is old, or old with one element pushed at its end
IsPush(old, new) ==
    \/ new = old
    \/ Len(new) = Len(old) + 1 /\ SubSeq(new, 1, Len(old)) = old

Vectors == {"fields", "registers", "interrupts", "peripherals"}

\* every vector of the Description and of the routines under way changes only
\* by a push at its end, and a record pushed carries the vectors of the routine
\* that built it; the peripherals of the Description are those generate_peripherals
\* returns
StoredInDocumentOrder ==
    /\ IsPush(description.memory_regions, description.memory_regions')
    /\ \A i \in 1..Len(stack') :
          (i <= Len(stack) /\ stack'[i] # stack[i] /\ stack[i].fn = stack'[i].fn) =>
              \A v \in Vectors \cap DOMAIN stack[i] :
                  /\ IsPush(stack[i][v], stack'[i][v])
                  /\ stack'[i][v] # stack[i][v] =>
                        LET pushed == stack'[i][v][Len(stack'[i][v])]
                        IN  /\ v = "registers" => pushed.fields = Top.fields
                            /\ v = "peripherals" =>
                                  /\ pushed.registers = Top.registers
                                  /\ pushed.interrupt = Top.interrupts
    /\ description.peripherals' # description.peripherals =>
          /\ stack # <<>>
          /\ Top.fn = "generate_peripherals"
          /\ description.peripherals' = Top.peripherals

\* the identifiers, upper-cased, of the lines of the given kinds, in output order
Emitted(kinds) ==
    LET IsKind(l) == l.kind \in kinds
        ls == SelectSeq(out, IsKind)
    IN  [i \in 1..Len(ls) |-> <<to_uppercase(ls[i].mod), to_uppercase(ls[i].ident)>>]

\* the records of the Description in document order: peripherals, registers,
\* fields, interrupts and memory regions, each with the name of its peripheral
InOrder(kind) ==
    LET ps == description.peripherals
        regs(p) == [j \in 1..Len(p.registers) |-> <<p.name, p.registers[j].name>>]
        flds(p) ==
            LET of_reg(r) ==
                    [k \in 1..Len(r.fields) |-> <<p.name, r.name \o <<"_">> \o r.fields[k].name>>]
            IN  ForEach(p.registers, of_reg)
        irqs(p) == [j \in 1..Len(p.interrupt) |-> <<p.name, p.interrupt[j].name \o _IRQ>>]
        raw == CASE kind = "peripheral" -> [i \in 1..Len(ps) |-> <<<<>>, ps[i].name>>]
                 [] kind = "register" -> ForEach(ps, regs)
                 [] kind = "field" -> ForEach(ps, flds)
                 [] kind = "interrupt" -> ForEach(ps, irqs)
                 [] kind = "region" ->
                        [i \in 1..Len(description.memory_regions) |->
                            <<<<>>, description.memory_regions[i].name>>]
    IN  [i \in 1..Len(raw) |-> <<to_uppercase(raw[i][1]), to_uppercase(raw[i][2])>>]

\* xs with pre put before and post put after the identifier of each entry
Affixed(xs, pre, post) == [i \in 1..Len(xs) |-> <<xs[i][1], pre \o xs[i][2] \o post>>]

\* xs with the peripheral name of each entry dropped
Global(xs) == [i \in 1..Len(xs) |-> <<<<>>, xs[i][2]>>]

\* every section lists the records in the order of the Description
EmittedInDocumentOrder ==
    result = "Ok" =>
        /\ Emitted({"mem_base"}) = Affixed(InOrder("region"), HW_, _MEM)
        /\ Emitted({"mem_len"}) = Affixed(InOrder("region"), HW_, _MEM_LEN)
        /\ Emitted({"base"}) = Affixed(InOrder("peripheral"), HW_, _BASE)
        /\ Global(Emitted({"mod"})) = InOrder("peripheral")
        /\ Emitted({"register"}) = InOrder("register")
        /\ Emitted({"field"}) = InOrder("field")
        /\ Emitted({"irq"}) = InOrder("interrupt")
        /\ Emitted({"csr"}) = Affixed(InOrder("peripheral"), <<>>, to_uppercase(_csr))
        /\ Emitted({"r"}) = InOrder("register")
        /\ Emitted({"wo"}) = InOrder("register")
        /\ \A k \in {"rf", "rmwf", "zf", "ms", "wfo"} : Emitted({k}) = InOrder("field")

\* C4: peripherals, registers within a peripheral, fields within a register,
\* interrupts within a peripheral and memory regions are stored in the
\* Description in document order, and every emitted section lists them in
\* that order, whatever their names.
C4_DocumentOrder == [][StoredInDocumentOrder /\ EmittedInDocumentOrder']_vars

\* a conversion has succeeded on a register with two fields of different names
C4_Witness ==
    /\ result = "Ok"
    /\ \E i \in 1..Len(description.peripherals) :
          \E j \in 1..Len(description.peripherals[i].registers) :
              LET r == description.peripherals[i].registers[j]
              IN  Len(r.fields) = 2 /\ r.fields[1].name # r.fields[2].name

\* C9: when parsing fails, generate returns that failure, a ParseError of the
\* parsing routine, and nothing has been written to the sink: no line is written
\* before parse_svd has returned success.
C9_ParseFailureReturned ==
    /\ (Len(stack) >= 2 \/ pending # "none") => out = <<>>
    /\ (stack = <<>> /\ out = <<>> /\ result \notin {"Ok", "WriteError"}) =>
          result \in ParseFailures

\* C10: every failure of a conversion is a ParseError value returned by
\* generate: the conversion never terminates abruptly.
C10_TypedFailure == result \in {"running", "Ok", "WriteError"} \cup ParseFailures

---------------------------------------------------------------------------
(* Properties of the emitter.                                              *)

\* the lines of the given kinds, in output order
Written(kinds) ==
    LET IsKind(l) == l.kind \in kinds
    IN  SelectSeq(out, IsKind)

WrittenSet(kinds) == {out[i] : i \in {j \in 1..Len(out) : out[j].kind \in kinds}}

\* the arguments of the constants of one kind, in output order
Arguments(kind) == [i \in 1..Len(Written({kind})) |-> Written({kind})[i].val]

FieldsOf(peripheral) ==
    LET of_reg(r) == r.fields
    IN  ForEach(peripheral.registers, of_reg)

AllFields == ForEach(description.peripherals, FieldsOf)

\* C5: for a Description in which every field has msb >= lsb, emission writes
\* one base constant per peripheral holding its base, one register constant per
\* register holding its offset, and one field constant per field whose width
\* is msb - lsb + 1 and whose offset is lsb.
C5_ConstantArguments ==
    (\A i \in 1..Len(AllFields) : AllFields[i].msb >= AllFields[i].lsb) =>
        /\ result # "panic"
        /\ result = "Ok" =>
              LET ps == description.peripherals
                  offsets(p) == [j \in 1..Len(p.registers) |-> <<p.registers[j].offset>>]
              IN  /\ Arguments("base") = [i \in 1..Len(ps) |-> <<ps[i].base>>]
                  /\ Arguments("register") = ForEach(ps, offsets)
                  /\ Arguments("field") =
                        [i \in 1..Len(AllFields) |->
                            <<AllFields[i].msb - AllFields[i].lsb + 1, AllFields[i].lsb>>]

\* C7: for every memory region, in document order, emission writes the two
\* constants HW_<N>_MEM, holding the base, and HW_<N>_MEM_LEN, holding the
\* size, where <N> is the region name in upper case.
C7_RegionConstants ==
    result = "Ok" =>
        LET constants(region) ==
                <<Line("mem_base", <<>>, HW_ \o to_uppercase(region.name) \o _MEM,
                       <<region.base>>, <<>>),
                  Line("mem_len", <<>>, HW_ \o to_uppercase(region.name) \o _MEM_LEN,
                       <<region.size>>, <<>>)>>
        IN  Written({"mem_base", "mem_len"}) = ForEach(description.memory_regions, constants)

\* C8: a field constant is declared as <REGISTER>_<FIELD>, both parts in upper
\* case; the register constant a field constructor is given is one declared in
\* the same module; every identifier the self-check block uses is declared in
\* the declarations section.
C8_CasingConsistent ==
    result = "Ok" =>
        LET declared(kinds) == {<<l.mod, l.ident>> : l \in WrittenSet(kinds)}
            names(p) ==
                LET of_reg(r) ==
                        [k \in 1..Len(r.fields) |->
                            to_uppercase(r.name) \o <<"_">> \o to_uppercase(r.fields[k].name)]
                IN  ForEach(p.registers, of_reg)
        IN  /\ [i \in 1..Len(Written({"field"})) |-> Written({"field"})[i].ident]
                  = ForEach(description.peripherals, names)
            /\ \A l \in WrittenSet({"field"}) : <<l.mod, l.ref>> \in declared({"register"})
            /\ \A l \in WrittenSet({"r", "wo"}) : <<l.mod, l.ident>> \in declared({"register"})
            /\ \A l \in WrittenSet({"rf", "rmwf", "zf", "ms", "wfo"}) :
                  <<l.mod, l.ident>> \in declared({"field"})
            /\ \A l \in WrittenSet({"csr"}) :
                  l.ref \in {b.ident : b \in WrittenSet({"base"})}

---------------------------------------------------------------------------
(* Termination of the parser and coverage of the self-check block.         *)

\* C11: once the tokenizer has reported end-of-document no parsing routine
\* goes on reading: a routine that reads end-of-document stops, with success
\* or a failure, so no routine is left in its loop after it.
C11_StopsAtEof ==
    (eof /\ result = "running" /\ pending = "none" /\ stack # <<>>) =>
        \/ Top.fn = "generate"
        \/ Top.fn \in NodeRoutines /\ Top.pc = "construct"

\* the identifiers the self-check block mentions: the base constant each CSR
\* is built from and the module-qualified constant each access names
Referenced ==
    {<<<<>>, l.ref>> : l \in WrittenSet({"csr"})}
    \cup {<<l.mod, l.ident>> : l \in WrittenSet({"r", "wo", "rf", "rmwf", "zf", "ms", "wfo"})}

\* C12: the self-check block references every symbol the other sections
\* declare: every base-address, register, field, interrupt and memory-region
\* constant.
C12_EverySymbolReferenced ==
    result = "Ok" =>
        \A l \in WrittenSet({"base", "register", "field", "irq", "mem_base", "mem_len"}) :
            <<l.mod, l.ident>> \in Referenced

---------------------------------------------------------------------------
(* What each routine does with the event it reads.                         *)

\* the local of a node routine that the scalar element `dest` is stored in
LocalOf(dest) ==
    CASE dest = "addressOffset" -> "offset"
      [] dest = "baseAddress" -> "base"
      [] OTHER -> dest

\* the events extract_contents tells apart
ValueEvents == EventsFor({})

\* C13: the event that follows the start tag of a scalar must be a text,
\* which becomes the value of the scalar (parsed as a literal unless the scalar
\* is a name); on any other event (end tag, start tag, comment, end-of-document,
\* tokenizer error) extract_contents returns UnexpectedTag, the scalar is left
\* as it was, and UnexpectedTag is what every caller up to generate returns.
C13_TextMustFollow ==
    [][/\ Running("extract_contents") =>
              /\ \E ev \in ValueEvents : ReadEvent(ev) /\ extract_contents(ev)
              /\ \A ev \in ValueEvents : (ReadEvent(ev) /\ extract_contents(ev)) =>
                    IF ev.kind # "Text"
                    THEN /\ pending' = "UnexpectedTag"
                         /\ stack' = Pop(stack)
                         /\ result' = "running"
                         /\ description' = description
                    ELSE \/ /\ pending' \in {"NonUTF8", "ParseIntError"}
                            /\ stack' = Pop(stack)
                         \/ /\ pending' = "none"
                            /\ ev.utf8
                            /\ Len(stack') = Len(stack) - 1
                            /\ stack'[Len(stack')][LocalOf(Top.dest)] =
                                  Some(IF Top.dest = "name" THEN ev.text
                                       ELSE parse_usize(ev.text).val)
       /\ pending = "UnexpectedTag" =>
              \/ pending' = "UnexpectedTag" /\ description' = description
              \/ result' = "UnexpectedTag" /\ description' = description]_vars

\* end-of-document followed the start tag of a scalar of a field
C13_Witness ==
    /\ pending = "UnexpectedTag"
    /\ eof
    /\ stack # <<>>
    /\ Top.fn = "generate_field"
    /\ Missing(Top) # {}

\* the container routines of the claim with the child element and the own
\* element of each
Containers ==
    [generate_fields |-> [child |-> "field", own |-> "fields"],
     generate_registers |-> [child |-> "register", own |-> "registers"],
     generate_peripherals |-> [child |-> "peripheral", own |-> "peripherals"],
     parse_memory_regions |-> [child |-> "memoryRegion", own |-> "memoryRegions"]]

InContainer ==
    /\ result = "running"
    /\ pending = "none"
    /\ stack # <<>>
    /\ Top.fn \in DOMAIN Containers

\* the container routine on top of the stack takes the arm of the event ev
ContainerReads(ev) ==
    /\ ReadEvent(ev)
    /\ CASE Top.fn = "generate_fields" ->
                ContainerArm(ev, "field", NodeFrame("generate_field"), "fields", ReturnUnit)
         [] Top.fn = "generate_registers" ->
                ContainerArm(ev, "register", NodeFrame("generate_register"), "registers",
                             ReturnUnit)
         [] Top.fn = "generate_peripherals" ->
                ContainerArm(ev, "peripheral", NodeFrame("generate_peripheral"),
                             "peripherals",
                             /\ stack' = Pop(stack)
                             /\ description' =
                                   [description EXCEPT !.peripherals = Top.peripherals]
                             /\ UNCHANGED <<pending, result>>)
         [] Top.fn = "parse_memory_regions" ->
                ContainerArm(ev, "memoryRegion", NodeFrame("generate_memory_region"),
                             "memoryRegions", ReturnUnit)

\* the conversion goes on after the start tag of the child (the child routine
\* is entered) and after the end tag of the container (the routine returns)
GoesOn(ev) ==
    /\ result' = "running"
    /\ pending' = "none"
    /\ IF ev.kind = "Start"
       THEN Len(stack') = Len(stack) + 1 /\ SubSeq(stack', 1, Len(stack)) = stack
       ELSE Len(stack') = Len(stack) - 1

\* the conversion aborts and nothing more is accumulated
Aborts ==
    /\ result' = "panic"
    /\ stack' = <<>>
    /\ description' = description

Accepted(ev) ==
    \/ ev.kind = "Start" /\ ev.utf8 /\ ev.tag = Containers[Top.fn].child
    \/ ev.kind = "End" /\ ev.tag = Containers[Top.fn].own

\* the container routine on top of the stack can take the arm of ev and end
\* up otherwise than the way given
CanGoOn(ev) == ENABLED (ContainerReads(ev) /\ UNCHANGED <<out, token, parsed>> /\ ~Aborts)

\* the tokenizer can deliver ev to the container routine on top of the stack
CanRead(ev) == ENABLED (ContainerReads(ev) /\ UNCHANGED <<out, token, parsed>>)

CanDoOtherThanGoOn(ev) ==
    ENABLED (ContainerReads(ev) /\ UNCHANGED <<out, token, parsed>> /\ ~GoesOn(ev))

CanDoOtherThanSkip(ev) ==
    ENABLED (/\ ContainerReads(ev)
             /\ UNCHANGED <<out, token, parsed>>
             /\ ~UNCHANGED <<stack, description, result, pending>>)

\* C14 as stated: inside a container every event other than the start tag of
\* the child element and the end tag of the container itself, a text event
\* included, aborts the conversion and no further child is accumulated.
C14_OnlyChildAndOwnEnd ==
    InContainer =>
        \A ev \in Events :
            IF Accepted(ev) THEN ~CanDoOtherThanGoOn(ev) ELSE ~CanGoOn(ev)

\* C14 as amended: inside a container the start tag of the child element and
\* the end tag of the container itself let the conversion go on, a text event
\* is skipped and changes nothing, and every other event (another start or
\* end tag, a comment, end-of-document, a tokenizer error) aborts the
\* conversion, no further child being accumulated.
C14_TextSkipped ==
    InContainer =>
        \A ev \in Events :
            /\ (eof => ev.kind = "Eof") => CanRead(ev)
            /\ IF Accepted(ev) THEN ~CanDoOtherThanGoOn(ev)
               ELSE IF ev.kind = "Text" THEN ~CanDoOtherThanSkip(ev)
               ELSE ~CanGoOn(ev)

\* generate_registers is reading after a register was accumulated: a text
\* now is skipped, a comment or end-of-document aborts
C14_Witness ==
    /\ InContainer
    /\ Top.fn = "generate_registers"
    /\ Len(stack[Len(stack) - 1].registers) = 1

---------------------------------------------------------------------------
(* The order of the output.                                                *)

\* the section a line belongs to; comments and blank lines occur in several
SectionOf(kind) ==
    CASE kind = "header" -> 1
      [] kind \in {"mem_base", "mem_len"} -> 2
      [] kind \in {"base", "utra", "mod", "doc", "register", "field", "irq",
                   "mod_close", "utra_close"} -> 3
      [] kind \in {"test_header", "csr", "r", "wo", "rf", "rmwf", "zf", "ms", "wfo",
                   "test_close"} -> 4
      [] OTHER -> 0

\* the last line before line j whose kind is one of kinds (0 if there is none)
LastBefore(j, kinds) ==
    LET before == {i \in 1..(j - 1) : out[i].kind \in kinds}
    IN  IF before = {} THEN 0 ELSE CHOOSE i \in before : \A k \in before : k <= i

HowMany(kind) == Cardinality({i \in 1..Len(out) : out[i].kind = kind})

\* C15: the sections are written in the order preamble, memory regions,
\* declarations, self-check, no line of a later section before a line of an
\* earlier one; a declaration inside the module list lies in the module of its
\* own peripheral and a self-check access follows the CSR of its own
\* peripheral, so peripherals are never interleaved; and on success each
\* section has been written exactly once.
C15_SectionsInOrder ==
    /\ \A i, j \in 1..Len(out) :
          (i < j /\ SectionOf(out[i].kind) # 0 /\ SectionOf(out[j].kind) # 0) =>
              SectionOf(out[i].kind) <= SectionOf(out[j].kind)
    /\ \A j \in 1..Len(out) :
          /\ out[j].kind \in {"doc", "register", "field", "irq", "mod_close"} =>
                LET i == LastBefore(j, {"mod", "mod_close"})
                IN  /\ i # 0
                    /\ out[i].kind = "mod"
                    /\ out[j].kind # "mod_close" => out[i].mod = out[j].mod
          /\ out[j].kind = "mod" =>
                LET i == LastBefore(j, {"mod", "mod_close"})
                IN  i # 0 => out[i].kind = "mod_close"
          /\ out[j].kind = "base" => LastBefore(j, {"utra"}) = 0
          /\ out[j].kind \in {"r", "wo", "rf", "rmwf", "zf", "ms", "wfo"} =>
                LET i == LastBefore(j, {"csr"})
                IN  i # 0 /\ out[i].ident = out[j].ref
    /\ result = "Ok" =>
          /\ out[1].kind = "header"
          /\ \A k \in {"header", "utra", "utra_close", "test_header"} : HowMany(k) = 1
          /\ HowMany("comment") = 2
          /\ HowMany("test_close") = 2
          /\ HowMany("mod") = Len(description.peripherals)
          /\ HowMany("mod_close") = Len(description.peripherals)
          /\ HowMany("csr") = Len(description.peripherals)
          /\ out[Len(out)].kind = "test_close"

\* a run has succeeded on two peripherals of different names
C15_Witness ==
    /\ result = "Ok"
    /\ Len(description.peripherals) = 2
    /\ description.peripherals[1].name # description.peripherals[2].name

\* the sections written when generate is at pc, and the whole output
WrittenBefore(pc, checked) ==
    LET header == print_header_lines
        regions == header \o print_memory_regions_lines(description.memory_regions)
        peripherals == regions \o print_peripherals_lines(description.peripherals, checked)
    IN  CASE pc = "print_header" -> <<>>
          [] pc = "print_memory_regions" -> header
          [] pc = "print_peripherals" -> regions
          [] pc = "print_tests" -> peripherals
          [] pc = "return" -> peripherals \o print_tests_lines(description.peripherals)

IsPrefix(s, t) == Len(s) <= Len(t) /\ SubSeq(t, 1, Len(s)) = s

\* C16: generate goes from one section to the next only when every line of
\* the section was accepted, and returns success only when every line of the
\* output was; when the sink refuses a line generate returns WriteError, the
\* lines accepted before it stay in the sink and nothing is written after it.
C16_WriteError ==
    /\ (stack # <<>> /\ Top.fn = "generate" /\ Top.pc # "parse_svd") =>
          /\ result = "running"
          /\ \E checked \in BOOLEAN : out = WrittenBefore(Top.pc, checked)
    /\ result = "Ok" => \E checked \in BOOLEAN : out = WrittenBefore("return", checked)
    /\ result = "WriteError" =>
          /\ stack = <<>>
          /\ \E checked \in BOOLEAN :
                /\ IsPrefix(out, WrittenBefore("return", checked))
                /\ out # WrittenBefore("return", checked)

\* the sink refused a line after it had accepted the preamble and more
C16_Witness ==
    /\ result = "WriteError"
    /\ Len(out) >= 2

\* parse_svd, at the root of the document, reads ev
RootReads(ev) ==
    /\ Running("parse_svd")
    /\ ReadEvent(ev)
    /\ RootArm(ev)
    /\ UNCHANGED <<out, token, parsed>>

OpensElement(ev) ==
    /\ ev.kind = "Start"
    /\ ev.utf8
    /\ ev.tag \in {"peripherals", "vendorExtensions"}

Returned == stack # <<>> /\ Top.fn = "generate" /\ Top.pc # "parse_svd"

\* C17: parse_svd starts from the empty Description; at the root of the
\* document no event changes the Description at the moment it is read, a
\* 'peripherals' or 'vendorExtensions' start tag is the only event that
\* calls a routine (the one that reads the element), end-of-document is the
\* only event on which parse_svd returns, and it returns success with the
\* Description as it stands; every other start tag, end tag, text or comment
\* leaves parse_svd where it was.  parse_svd has returned success only if
\* the end of the document was reached.
C17_RootFrame ==
    /\ (Running("generate") /\ Top.pc = "parse_svd") =>
          ~ENABLED (generate /\ description' # DescriptionDefault)
    /\ Returned => eof
    /\ Running("parse_svd") =>
          \A ev \in Events :
              /\ (eof => ev.kind = "Eof") => ENABLED RootReads(ev)
              /\ ~ENABLED (RootReads(ev) /\ description' # description)
              /\ IF OpensElement(ev)
                 THEN ~ENABLED (/\ RootReads(ev)
                                /\ ~(/\ Len(stack') = Len(stack) + 1
                                     /\ SubSeq(stack', 1, Len(stack)) = stack
                                     /\ stack'[Len(stack')].fn =
                                            IF ev.tag = "peripherals"
                                            THEN "generate_peripherals"
                                            ELSE "parse_vendor_extensions"
                                     /\ result' = "running"
                                     /\ pending' = "none"))
                 ELSE IF ev.kind = "Eof"
                 THEN ~ENABLED (/\ RootReads(ev)
                                /\ ~(/\ stack' = <<[fn |-> "generate", pc |-> "print_header"]>>
                                     /\ result' = "running"
                                     /\ pending' = "none"))
                 ELSE IF ev.kind = "Err"
                 THEN ~ENABLED (RootReads(ev) /\ result' # "panic")
                 ELSE ~ENABLED (RootReads(ev) /\ ~UNCHANGED <<stack, pending, result>>)

\* parse_svd is back at the root after a 'peripherals' element that held a
\* peripheral, and the document goes on
C17_Witness ==
    /\ Running("parse_svd")
    /\ ~eof
    /\ description.peripherals # <<>>

\* C18: parse_usize never returns a wrong number: when the digits get_base
\* leaves are empty, hold a character that is not a digit of the base (a
\* sign is not a digit), or denote more than a usize holds, the result is
\* ParseIntError.
C18_NeverWrongNumber ==
    parsed # NotRun =>
        LET gb == get_base(token)
        IN  (\/ ~ValidDigits(gb[1], gb[2])
             \/ DigitsValue(gb[1], gb[2]) > UsizeMax)
            => parsed = Err("ParseIntError")

\* C20: for every Description a successful parse can produce, emission
\* completes and the width written for each field is msb + 1 - lsb computed
\* without underflow, fields with msb < lsb included.  Stated for the
\* Descriptions in which msb + 1 itself is a usize, so that a step against
\* it is a subtraction that went below zero.
C20_WidthNeverUnderflows ==
    (\A i \in 1..Len(AllFields) : AllFields[i].msb < UsizeMax) =>
        /\ result # "panic"
        /\ \A i \in 1..Len(Arguments("field")) :
              Arguments("field")[i] =
                  <<AllFields[i].msb + 1 - AllFields[i].lsb, AllFields[i].lsb>>

\* the record a node routine at its construction holds in its locals
LocalsOf(f) ==
    IF f.fn = "generate_field"
    THEN [name |-> f.name[1], lsb |-> f.lsb[1], msb |-> f.msb[1]]
    ELSE [name |-> f.name[1], offset |-> f.offset[1],
          description |-> f.description, fields |-> f.fields]

\* the routine on top returns and the record is the last of vec in the frame
\* of the routine that collects it, after those that were there
Collected(vec, record) ==
    LET at == Len(stack) - 2
    IN  /\ pending' = "none"
        /\ result' = "running"
        /\ stack' = [Pop(stack) EXCEPT ![at][vec] = Append(stack[at][vec], record)]

InNodeLoop ==
    /\ result = "running"
    /\ pending = "none"
    /\ stack # <<>>
    /\ Top.fn \in DOMAIN Nodes
    /\ Top.pc = "loop"

\* the node routine on top of the stack takes the arm of the event ev
NodeReads(ev) ==
    /\ ReadEvent(ev)
    /\ NodeArm(ev, Nodes[Top.fn].scalars, Nodes[Top.fn].calls, Nodes[Top.fn].own)
    /\ UNCHANGED <<out, token, parsed>>

\* a tag the node routine on top of the stack does not know
Unrecognised == Unmatched(Nodes[Top.fn].scalars \cup DOMAIN Nodes[Top.fn].calls
                              \cup {Nodes[Top.fn].own})

StartOf(tag) == Event("Start", tag, <<>>, TRUE)

EndOf(tag) == Event("End", tag, <<>>, TRUE)

\* extract_contents, called for a scalar the caller has a value for already,
\* reads ev
Rereads(ev) ==
    /\ ReadEvent(ev)
    /\ extract_contents(ev)
    /\ UNCHANGED <<out, token, parsed>>

Reading ==
    /\ result = "running"
    /\ pending = "none"
    /\ Len(stack) > 1
    /\ Top.fn = "extract_contents"
    /\ stack[Len(stack) - 1][LocalOf(Top.dest)] # None

\* C21: in the loop of a node routine, whatever was read before, the start
\* and the end tag of an element the routine does not know are read and leave
\* the routine as it was, so that the events inside that element reach the
\* same match; the start tag of a scalar then calls extract_contents for that
\* scalar; and a value read for a scalar that has one already takes its place.
C21_ScalarAtAnyDepth ==
    /\ (InNodeLoop /\ ~eof) =>
          /\ \A ev \in {StartOf(Unrecognised), EndOf(Unrecognised)} :
                /\ ENABLED NodeReads(ev)
                /\ ~ENABLED (NodeReads(ev) /\ ~UNCHANGED <<stack, pending, result, description>>)
          /\ \A t \in Nodes[Top.fn].scalars :
                /\ ENABLED NodeReads(StartOf(t))
                /\ ~ENABLED (/\ NodeReads(StartOf(t))
                             /\ ~(/\ stack' = Append(stack, ExtractFrame(t))
                                  /\ UNCHANGED <<pending, result, description>>))
    /\ (Reading /\ ~eof) =>
          \A x \in Texts :
              LET ev == Event("Text", "", x, TRUE)
                  local == LocalOf(Top.dest)
                  caller == stack[Len(stack) - 1]
              IN  (Top.dest = "name" \/ parse_usize(x).ok) =>
                      /\ ENABLED Rereads(ev)
                      /\ ~ENABLED (/\ Rereads(ev)
                                   /\ ~(/\ stack' = [Pop(Pop(stack)) \o <<caller>>
                                                       EXCEPT ![Len(stack) - 1][local] =
                                                           Some(IF Top.dest = "name" THEN x
                                                                ELSE parse_usize(x).val)]
                                        /\ UNCHANGED <<pending, result, description>>))

\* a register has read a name and the start tag of a second name element:
\* extract_contents is about to read the text that takes the place of the first
C21_Witness ==
    /\ Reading
    /\ ~eof
    /\ Top.dest = "name"
    /\ stack[Len(stack) - 1].fn = "generate_register"
    /\ stack[Len(stack) - 1].name = Some(<<"a">>)

\* C22: a 'peripherals' element is read into a sequence that starts empty,
\* and when the element ends that sequence becomes the peripheral sequence of
\* the Description, whatever earlier elements had put there; every memory
\* region read is appended to the memory regions read before, whichever
\* element they came from; the peripheral sequence changes at no other step,
\* the memory-region sequence at no other step, and neither step changes the
\* other sequence.
C22_ReplaceAndAccumulate ==
    [][/\ (/\ Running("parse_svd")
           /\ Len(stack') = Len(stack) + 1
           /\ stack'[Len(stack')].fn = "generate_peripherals")
          => stack'[Len(stack')].peripherals = <<>>
       /\ (/\ Running("generate_peripherals")
           /\ stack' = Pop(stack)
           /\ pending' = "none"
           /\ result' = "running")
          => description' = [peripherals |-> Top.peripherals,
                             memory_regions |-> description.memory_regions]
       /\ description'.peripherals # description.peripherals
          => Running("generate_peripherals")
       /\ (Running("generate_memory_region") /\ Top.pc = "construct" /\ Missing(Top) = {})
          => description' =
                [peripherals |-> description.peripherals,
                 memory_regions |->
                    Append(description.memory_regions,
                           [name |-> Top.name[1], base |-> Top.base[1],
                            size |-> Top.size[1]])]
       /\ description'.memory_regions # description.memory_regions
          => /\ Running("generate_memory_region")
             /\ Top.pc = "construct"
             /\ Missing(Top) = {}]_vars

\* a second 'peripherals' element is being read, with a peripheral other
\* than the one the first element left in the Description
C22_Witness ==
    /\ Running("generate_peripherals")
    /\ description.peripherals # <<>>
    /\ Top.peripherals # <<>>
    /\ Top.peripherals # description.peripherals

RegistersOf(peripherals) ==
    LET of_peripheral(p) == p.registers
    IN  ForEach(peripherals, of_peripheral)

\* the registers built so far: those of the Description and those the
\* routines under way hold in their vectors
RegistersBuilt ==
    LET of_frame(f) ==
            IF f.fn = "generate_peripherals" THEN RegistersOf(f.peripherals)
            ELSE IF f.fn = "generate_peripheral" THEN f.registers
            ELSE <<>>
    IN  RegistersOf(description.peripherals) \o ForEach(stack, of_frame)

\* C23: every Register built by the parser has no description, and the
\* description local of generate_register is never assigned: the start tag of
\* a 'description' child is read and leaves the routine as it was; so no
\* description comment line is ever written.
C23_NoRegisterDescription ==
    /\ \A i \in 1..Len(RegistersBuilt) : RegistersBuilt[i].description = None
    /\ \A i \in 1..Len(stack) :
          stack[i].fn = "generate_register" => stack[i].description = None
    /\ (InNodeLoop /\ Top.fn = "generate_register" /\ ~eof) =>
          /\ ENABLED NodeReads(StartOf("description"))
          /\ ~ENABLED (/\ NodeReads(StartOf("description"))
                       /\ ~UNCHANGED <<stack, pending, result, description>>)
    /\ \A i \in 1..Len(out) : out[i].kind # "doc"

\* generate has succeeded on a document with a register, whose constant is
\* in the output
C23_Witness ==
    /\ result = "Ok"
    /\ RegistersBuilt # <<>>
    /\ \E i \in 1..Len(out) : out[i].kind = "register"

=============================================================================
